---- MODULE Spec2Model ----
(***************************************************************************)
(* Session token lifecycle of the Varzesha front end:                      *)
(*   src/Varzesha_front/src/api/client.ts  (axios client, the request and  *)
(*       response interceptors, refreshToken, the subscriber list)         *)
(*   src/unnamed/part_003                  (the zustand auth store)        *)
(*   src/Varzesha_front/src/api/auth.ts    (login, register, verifyPhone   *)
(*       as requests through the axios client)                             *)
(*   src/Varzesha_front/src/store/uiStore.ts (the notification list)       *)
(*                                                                         *)
(* JavaScript runs one macrotask at a time.  One action of this module is  *)
(* one macrotask together with the promise continuations it schedules, so  *)
(* an await on a network call ends an action and the arrival of the        *)
(* response starts another.  The only continuation that is kept apart is   *)
(* the one after `await refreshToken()` when refreshToken returned null    *)
(* without a network call (line 31): request interceptors of requests      *)
(* issued in the same macrotask run before it, so Issue may interleave     *)
(* with it (MicrotaskPending), and nothing else may.                       *)
(*                                                                         *)
(* Between an interceptor returning the config and axios dispatching the   *)
(* request only continuations of that request's own promise chain run, so  *)
(* returning the config and transmitting the request are one step.         *)
(* window.location.href = '/login' is recorded as a signal; the page       *)
(* unload that follows it is not modelled.                                 *)
(***************************************************************************)
EXTENDS Integers, Sequences, FiniteSets, TLC

\* ---- bounds ----
NumReq == 2          \* logical requests the callers issue
MaxTime == 2         \* the clock (Date.now() / 1000) runs from 1 to MaxTime
MaxTok == 2          \* access tokens the server mints
CycReq == 4          \* requests of SpecCycles: a leader and three subscribers
MaxNotif == 4        \* notifications added to the list

\* ---- values ----

\* A stored string; k = "none" is null (no item), "bad" is a string that
\* jwtDecode rejects, "jwt" is a token with payload {exp}.
NoToken == [k |-> "none", id |-> 0, exp |-> 0]
Garbage == [k |-> "bad", id |-> 0, exp |-> 0]
Jwt(i, e) == [k |-> "jwt", id |-> i, exp |-> e]

\* localStorage.getItem('refresh_token') of a store without the item.
NoRefresh == 0

VARIABLES
  localStorage,        \* [access_token, refresh_token]
  isRefreshing,        \* client.ts:16
  refreshSubscribers,  \* client.ts:17, the requests whose callbacks wait
  isAuthenticated,     \* part_003:24
  req,                 \* per request: the config and where its promise chain is
  now,                 \* the clock
  minted,              \* tokens minted so far
  isLoading,           \* part_003:25
  notifications,       \* uiStore.ts:30, each [id, read]
  unreadCount          \* uiStore.ts:31

\* The notification state of uiStore, and the state of the session.
uiState == <<notifications, unreadCount>>
session == <<localStorage, isRefreshing, refreshSubscribers, isAuthenticated,
             req, now, minted, isLoading>>

vars == <<localStorage, isRefreshing, refreshSubscribers, isAuthenticated,
          req, now, minted, isLoading, notifications, unreadCount>>

\* The logical requests of the run; the initial state fixes how many.
Req == DOMAIN req

\* ---- pure parts of client.ts ----

\* jwtDecode(token) returns a payload (TRUE) or throws (FALSE).
jwtDecode(token) == token.k = "jwt"

\* TokenExpired with the comparison turned round.
TokenExpiredFlipped(token, currentTime) == token.exp > currentTime

\* client.ts:56, decoded.exp < currentTime
TokenExpired(token, currentTime) == token.exp < currentTime

\* Branch without the test of the flag at line 57: every request that
\* finds the token expired starts a renewal of its own.
BranchNoFlag(token, refreshing, currentTime) ==
  IF token.k = "none" THEN "anon"
  ELSE IF ~jwtDecode(token) THEN "decodeErr"
  ELSE IF ~TokenExpired(token, currentTime) THEN "valid"
  ELSE "lead"

\* Branch with a decode error handled as an expired token.
BranchDecodeAsExpired(token, refreshing, currentTime) ==
  IF token.k = "none" THEN "anon"
  ELSE IF jwtDecode(token) /\ ~TokenExpired(token, currentTime) THEN "valid"
  ELSE IF ~refreshing THEN "lead"
  ELSE "join"

\* Branch with a missing token queued behind a renewal in flight.
BranchNoTokenJoins(token, refreshing, currentTime) ==
  IF token.k = "none" THEN (IF refreshing THEN "join" ELSE "anon")
  ELSE IF ~jwtDecode(token) THEN "decodeErr"
  ELSE IF ~TokenExpired(token, currentTime) THEN "valid"
  ELSE IF ~refreshing THEN "lead"
  ELSE "join"

\* Branch that sends with the stored token when a renewal is in flight.
BranchJoinSends(token, refreshing, currentTime) ==
  IF token.k = "none" THEN "anon"
  ELSE IF ~jwtDecode(token) THEN "decodeErr"
  ELSE IF ~TokenExpired(token, currentTime) THEN "valid"
  ELSE IF ~refreshing THEN "lead"
  ELSE "valid"

\* The branch of the request interceptor (client.ts:48-87) for the stored
\* token and the flag:
\*   "anon"      no token, line 50 false
\*   "decodeErr" jwtDecode threw, line 82
\*   "valid"     line 80
\*   "lead"      lines 57-69, this request starts the renewal
\*   "join"      lines 70-78, this request subscribes
Branch(token, refreshing, currentTime) ==
  IF token.k = "none" THEN "anon"
  ELSE IF ~jwtDecode(token) THEN "decodeErr"
  ELSE IF ~TokenExpired(token, currentTime) THEN "valid"
  ELSE IF ~refreshing THEN "lead"
  ELSE "join"

\* HeaderFor with the stored token attached after a decode error too.
HeaderAttachAnyway(b, token, old) ==
  IF b \in {"valid", "decodeErr"} THEN token ELSE old

\* The Authorization header of the config the request interceptor returns
\* at once (client.ts:80, 87): the stored token on the "valid" branch, the
\* header the config came with otherwise.
HeaderFor(b, token, old) == IF b = "valid" THEN token ELSE old

\* refreshToken without the test at line 31.
refreshTokenStartNoCheck(ls) == "net"

\* refreshToken up to its first suspension (client.ts:30-33): "null" when
\* there is no refresh token (returns null, no network call), "net" when
\* the POST to /users/auth/refresh/ is outstanding.
refreshTokenStart(ls) ==
  IF ls.refresh_token = NoRefresh THEN "null" ELSE "net"

\* refreshToken without line 38: the new token is returned, not stored.
storeAccessSkip(ls, access) == ls

\* refreshToken that also drops the refresh token it has just used.
storeAccessDropsRefresh(ls, access) ==
  [ls EXCEPT !.access_token = access, !.refresh_token = NoRefresh]

\* client.ts:38
storeAccess(ls, access) == [ls EXCEPT !.access_token = access]

\* logout that removes the access token only.
logoutKeepsRefresh(ls) == [ls EXCEPT !.access_token = NoToken]

\* part_003:76-77
logout(ls) == [ls EXCEPT !.access_token = NoToken, !.refresh_token = NoRefresh]

\* A login that stores the access token only.
storeLoginAccessOnly(ls, access, refresh) == [ls EXCEPT !.access_token = access]

\* part_003:31-32
storeLogin(ls, access, refresh) ==
  [ls EXCEPT !.access_token = access, !.refresh_token = refresh]

\* ShouldRenew without the test of _retry.
ShouldRenewAlways(status, retry) == status = 401

\* The response interceptor's test, client.ts:98
ShouldRenew(status, retry) == status = 401 /\ ~retry

\* The config leaves the request interceptor and axios transmits it with
\* Authorization header h.
Transmit(c, h) == [c EXCEPT !.pc = "sent", !.hdr = h, !.sends = @ + 1]

\* subscribeTokenRefresh that loses the callback.
subscribeDrop(subs, r) == subs

\* client.ts:19-21
subscribeTokenRefresh(subs, r) == Append(subs, r)

RECURSIVE Release(_, _, _)
Release(rq, subs, token) ==
  IF subs = <<>> THEN rq
  ELSE Release([rq EXCEPT ![Head(subs)] = Transmit(@, token)], Tail(subs), token)

\* client.ts:23-26: every callback (lines 73-76) sets its header and
\* resolves its config, in list order; the result is the requests after it.
onTokenRefreshed(rq, subs, token) == Release(rq, subs, token)

\* The store actions that post to an endpoint through apiClient
\* (auth.ts:10-13, 15-18, 24-27); every other request is "api".
AuthCalls == {"login", "register", "verifyPhone"}

\* finallyLoading that leaves the flag as the call set it.
finallyLoadingSkip(kind, loading) == loading

\* part_003:38-40 (and 54-56, 70-72): when the promise of a request of the
\* given kind settles, the finally block of the store action that awaits it
\* resets isLoading; a request of kind "api" has no such caller.
finallyLoading(kind, loading) == IF kind \in AuthCalls THEN FALSE ELSE loading

\* ---- state ----

\* pc: "idle" not issued, "refreshing" awaiting refreshToken at line 59,
\*   "waiting" subscribed at line 73, "sent" transmitted, "renewing" awaiting
\*   refreshToken at line 101, "done" resolved, "failed" rejected.
\* hdr: config.headers.Authorization; retry: config._retry;
\* call: the refreshToken call this request awaits ("none", "net", "null").
\* History: via, the branch its last pass through the request interceptor
\*   took; sends, transmissions; rej, 401 responses received; sig, session-end
\*   signals (logout and redirect) fired while handling it; behind, the
\*   request whose renewal was in flight when this one subscribed (0: none).
\* kind: "api", or the store action of AuthCalls that awaits the request.
NewReq == [pc |-> "idle", hdr |-> NoToken, retry |-> FALSE, call |-> "none",
           via |-> "-", sends |-> 0, rej |-> 0, sig |-> 0, behind |-> 0,
           kind |-> "api"]

Init ==
  /\ now = 1
  /\ \E s \in {"fresh", "bad", "expired", "boundary"} :
       /\ localStorage =
            CASE s = "fresh" -> [access_token |-> NoToken, refresh_token |-> NoRefresh]
              [] s = "bad" -> [access_token |-> Garbage, refresh_token |-> 1]
              [] s = "expired" -> [access_token |-> Jwt(1, 0), refresh_token |-> 1]
              [] s = "boundary" -> [access_token |-> Jwt(1, 1), refresh_token |-> 1]
       /\ isAuthenticated = (s # "fresh")
       /\ minted = IF s \in {"expired", "boundary"} THEN 1 ELSE 0
  /\ isRefreshing = FALSE
  /\ refreshSubscribers = <<>>
  /\ req = [r \in 1..NumReq |-> NewReq]
  /\ isLoading = FALSE
  /\ notifications = <<>>
  /\ unreadCount = 0

\* A continuation of `await refreshToken()` is queued and no macrotask runs
\* before it.
MicrotaskPending == \E r \in Req : req[r].call = "null"

\* The renewal calls that are outstanding at the server.
NetCalls == {r \in Req : req[r].call = "net"}

\* The token the server mints next; it expires one tick after now.
NextToken == Jwt(minted + 1, now + 1)

\* The request whose `await refreshToken()` at line 59 is pending (0: none);
\* isRefreshing is true exactly while there is one.
Leader(rq) ==
  IF \E l \in DOMAIN rq : rq[l].pc = "refreshing"
  THEN CHOOSE l \in DOMAIN rq : rq[l].pc = "refreshing"
  ELSE 0

\* ---- the request interceptor, client.ts:46-90 ----
\* rq: the requests as the caller of the interceptor left them; ls: the
\* store it reads at line 48.
RequestInterceptor(r, rq, ls) ==
  LET b == Branch(ls.access_token, isRefreshing, now) IN
  CASE b \in {"anon", "decodeErr", "valid"} ->
         /\ req' = [rq EXCEPT ![r] = Transmit([@ EXCEPT !.via = b],
                                              HeaderFor(b, ls.access_token, @.hdr))]
         /\ UNCHANGED <<isRefreshing, refreshSubscribers>>
    [] b = "lead" ->
         /\ isRefreshing' = TRUE
         /\ req' = [rq EXCEPT ![r].pc = "refreshing", ![r].via = b,
                              ![r].call = refreshTokenStart(ls)]
         /\ UNCHANGED refreshSubscribers
    [] b = "join" ->
         /\ refreshSubscribers' = subscribeTokenRefresh(refreshSubscribers, r)
         /\ req' = [rq EXCEPT ![r].pc = "waiting", ![r].via = b,
                              ![r].behind = Leader(rq)]
         /\ UNCHANGED isRefreshing

\* A caller issues request r through apiClient.  Requests are issued in the
\* order of their numbers.
Issue(r) ==
  /\ req[r].pc = "idle"
  /\ \A q \in Req : q < r => req[q].pc # "idle"
  /\ RequestInterceptor(r, req, localStorage)
  /\ UNCHANGED <<localStorage, isAuthenticated, now, minted, isLoading, uiState>>

\* client.ts:59-64: the renewal of the leading request r succeeds.
LeadRefreshOk(r) ==
  /\ req[r].pc = "refreshing"
  /\ req[r].call = "net"
  /\ minted < MaxTok
  /\ LET t == NextToken IN
       /\ localStorage' = storeAccess(localStorage, t)
       /\ req' = [onTokenRefreshed(req, refreshSubscribers, t)
                    EXCEPT ![r] = Transmit([@ EXCEPT !.call = "none"], t)]
  /\ minted' = minted + 1
  /\ isRefreshing' = FALSE
  /\ refreshSubscribers' = <<>>
  /\ UNCHANGED <<isAuthenticated, now, isLoading, uiState>>

\* client.ts:59-69, 87: refreshToken resolved with null (no refresh token,
\* or the POST failed); logout, redirect, and the config is returned.
LeadRefreshFail(r) ==
  /\ req[r].pc = "refreshing"
  /\ req[r].call # "none"
  /\ isRefreshing' = FALSE
  /\ localStorage' = logout(localStorage)
  /\ isAuthenticated' = FALSE
  /\ req' = [req EXCEPT ![r] = Transmit([@ EXCEPT !.call = "none",
                                                  !.sig = @ + 1], @.hdr)]
  /\ UNCHANGED <<refreshSubscribers, now, minted, isLoading, uiState>>

\* client.ts:94: a 2xx response to a request that no store action awaits.
RespondOk(r) ==
  /\ ~MicrotaskPending
  /\ req[r].pc = "sent"
  /\ req[r].kind = "api"
  /\ req' = [req EXCEPT ![r].pc = "done"]
  /\ UNCHANGED <<localStorage, isRefreshing, refreshSubscribers,
                 isAuthenticated, now, minted, isLoading, uiState>>

\* client.ts:95-111 for an error that is not a 401 (status 500 here).
RespondError(r) ==
  /\ ~MicrotaskPending
  /\ req[r].pc = "sent"
  /\ ~ShouldRenew(500, req[r].retry)
  /\ req' = [req EXCEPT ![r].pc = "failed"]
  /\ isLoading' = finallyLoading(req[r].kind, isLoading)
  /\ UNCHANGED <<localStorage, isRefreshing, refreshSubscribers,
                 isAuthenticated, now, minted, uiState>>

\* client.ts:95-111 for a 401.
Respond401(r) ==
  /\ ~MicrotaskPending
  /\ req[r].pc = "sent"
  /\ IF ShouldRenew(401, req[r].retry)
     THEN IF refreshTokenStart(localStorage) = "net"
          THEN /\ req' = [req EXCEPT ![r].rej = @ + 1, ![r].retry = TRUE,
                                     ![r].pc = "renewing", ![r].call = "net"]
               /\ UNCHANGED <<localStorage, isAuthenticated, isLoading>>
          ELSE \* refreshToken returned null: lines 106-107, 111
               /\ req' = [req EXCEPT ![r].rej = @ + 1, ![r].retry = TRUE,
                                     ![r].pc = "failed", ![r].sig = @ + 1]
               /\ localStorage' = logout(localStorage)
               /\ isAuthenticated' = FALSE
               /\ isLoading' = finallyLoading(req[r].kind, isLoading)
     ELSE /\ req' = [req EXCEPT ![r].rej = @ + 1, ![r].pc = "failed"]
          /\ isLoading' = finallyLoading(req[r].kind, isLoading)
          /\ UNCHANGED <<localStorage, isAuthenticated>>
  /\ UNCHANGED <<isRefreshing, refreshSubscribers, now, minted, uiState>>

\* client.ts:101-104: the renewal started by the response interceptor
\* succeeds; the request is handed to apiClient again.
GuardRefreshOk(r) ==
  /\ ~MicrotaskPending
  /\ req[r].pc = "renewing"
  /\ minted < MaxTok
  /\ LET t == NextToken
         ls == storeAccess(localStorage, t) IN
       /\ localStorage' = ls
       /\ RequestInterceptor(r, [req EXCEPT ![r].call = "none", ![r].hdr = t], ls)
  /\ minted' = minted + 1
  /\ UNCHANGED <<isAuthenticated, now, isLoading, uiState>>

\* client.ts:101, 105-111: the renewal started by the response interceptor
\* fails.
GuardRefreshFail(r) ==
  /\ ~MicrotaskPending
  /\ req[r].pc = "renewing"
  /\ localStorage' = logout(localStorage)
  /\ isAuthenticated' = FALSE
  /\ req' = [req EXCEPT ![r].pc = "failed", ![r].call = "none", ![r].sig = @ + 1]
  /\ isLoading' = finallyLoading(req[r].kind, isLoading)
  /\ UNCHANGED <<isRefreshing, refreshSubscribers, now, minted, uiState>>

\* part_003:30-37: a login, registration or verification succeeded.
Login ==
  /\ ~MicrotaskPending
  /\ minted < MaxTok
  /\ localStorage' = storeLogin(localStorage, NextToken, minted + 1)
  /\ isAuthenticated' = TRUE
  /\ minted' = minted + 1
  /\ UNCHANGED <<isRefreshing, refreshSubscribers, req, now, isLoading, uiState>>

\* part_003:75-79: the user logs out.
Logout ==
  /\ ~MicrotaskPending
  /\ localStorage' = logout(localStorage)
  /\ isAuthenticated' = FALSE
  /\ UNCHANGED <<isRefreshing, refreshSubscribers, req, now, minted,
                 isLoading, uiState>>

\* Time passes.
Tick ==
  /\ ~MicrotaskPending
  /\ now < MaxTime
  /\ now' = now + 1
  /\ UNCHANGED <<localStorage, isRefreshing, refreshSubscribers,
                 isAuthenticated, req, minted, isLoading, uiState>>

Next ==
  \/ \E r \in Req : Issue(r)
  \/ \E r \in Req : LeadRefreshOk(r)
  \/ \E r \in Req : LeadRefreshFail(r)
  \/ \E r \in Req : RespondOk(r)
  \/ \E r \in Req : RespondError(r)
  \/ \E r \in Req : Respond401(r)
  \/ \E r \in Req : GuardRefreshOk(r)
  \/ \E r \in Req : GuardRefreshFail(r)
  \/ Login
  \/ Logout
  \/ Tick

Spec == Init /\ [][Next]_vars

\* ---- successive renewal cycles of the request interceptor ----
\* A session restored with an expired access token, CycReq requests, and
\* only the steps of the request interceptor, login and the clock: responses
\* to transmitted requests are not delivered.  The clock starts at 0 and the
\* restored token is numbered 0, so that a login, the expiry of its token and
\* a second renewal fit under MaxTime and MaxTok.
InitCycles ==
  /\ now = 0
  /\ localStorage = [access_token |-> Jwt(0, -1), refresh_token |-> 1]
  /\ isAuthenticated = TRUE
  /\ minted = 0
  /\ isRefreshing = FALSE
  /\ refreshSubscribers = <<>>
  /\ req = [r \in 1..CycReq |-> NewReq]
  /\ isLoading = FALSE
  /\ notifications = <<>>
  /\ unreadCount = 0

NextCycles ==
  \/ \E r \in Req : Issue(r)
  \/ \E r \in Req : LeadRefreshOk(r)
  \/ \E r \in Req : LeadRefreshFail(r)
  \/ Login
  \/ Tick

SpecCycles == InitCycles /\ [][NextCycles]_vars

\* ---- a restored session from clock 0 ----
\* The session of InitCycles with NumReq requests, the two interceptors,
\* logout and the clock; a transmitted request is answered 401 or not at
\* all, and nobody logs in.  With the clock starting at 0 the token written
\* by a renewal can expire under MaxTime, so a request can find an expired
\* access token in a store whose refresh token is gone.
InitRestored ==
  /\ now = 0
  /\ localStorage = [access_token |-> Jwt(0, -1), refresh_token |-> 1]
  /\ isAuthenticated = TRUE
  /\ minted = 0
  /\ isRefreshing = FALSE
  /\ refreshSubscribers = <<>>
  /\ req = [r \in 1..NumReq |-> NewReq]
  /\ isLoading = FALSE
  /\ notifications = <<>>
  /\ unreadCount = 0

NextRestored ==
  \/ \E r \in Req : Issue(r)
  \/ \E r \in Req : LeadRefreshOk(r)
  \/ \E r \in Req : LeadRefreshFail(r)
  \/ \E r \in Req : Respond401(r)
  \/ \E r \in Req : GuardRefreshOk(r)
  \/ \E r \in Req : GuardRefreshFail(r)
  \/ Logout
  \/ Tick

SpecRestored == InitRestored /\ [][NextRestored]_vars

\* ---- login, register and verifyPhone as requests ----

\* part_003:28-30 (44-46, 60-62) with auth.ts:10-13 (15-18, 24-27): store
\* action k sets isLoading and posts through apiClient, so its request
\* passes the request interceptor like any other.
AuthCall(r, k) ==
  /\ req[r].pc = "idle"
  /\ \A q \in Req : q < r => req[q].pc # "idle"
  /\ isLoading' = TRUE
  /\ RequestInterceptor(r, [req EXCEPT ![r].kind = k], localStorage)
  /\ UNCHANGED <<localStorage, isAuthenticated, now, minted, uiState>>

\* client.ts:94 then part_003:31-40 (47-56, 63-72): the 2xx response to the
\* request of a store action; both tokens are stored, the session is marked
\* authenticated and the finally block resets isLoading.
AuthCallOk(r) ==
  /\ ~MicrotaskPending
  /\ req[r].pc = "sent"
  /\ req[r].kind \in AuthCalls
  /\ minted < MaxTok
  /\ localStorage' = storeLogin(localStorage, NextToken, minted + 1)
  /\ isAuthenticated' = TRUE
  /\ isLoading' = finallyLoading(req[r].kind, isLoading)
  /\ minted' = minted + 1
  /\ req' = [req EXCEPT ![r].pc = "done"]
  /\ UNCHANGED <<isRefreshing, refreshSubscribers, now, uiState>>

\* part_003:81
setUser ==
  /\ ~MicrotaskPending
  /\ isAuthenticated' = TRUE
  /\ UNCHANGED <<localStorage, isRefreshing, refreshSubscribers, req, now,
                 minted, isLoading, uiState>>

\* The store actions and the response interceptor on a page whose stored
\* token, if any, has not expired: the clock stands still, so no request
\* finds the token expired and the renewals are those of the response
\* interceptor.
InitAuth ==
  /\ Init
  /\ ~(jwtDecode(localStorage.access_token)
         /\ TokenExpired(localStorage.access_token, now))

NextAuth ==
  \/ \E r \in Req, k \in AuthCalls : AuthCall(r, k)
  \/ \E r \in Req : AuthCallOk(r)
  \/ setUser
  \/ \E r \in Req : Issue(r)
  \/ \E r \in Req : RespondOk(r)
  \/ \E r \in Req : RespondError(r)
  \/ \E r \in Req : Respond401(r)
  \/ \E r \in Req : GuardRefreshOk(r)
  \/ \E r \in Req : GuardRefreshFail(r)
  \/ Logout

SpecAuth == InitAuth /\ [][NextAuth]_vars

\* ---- the notification list of uiStore ----

\* uiStore.ts:51-61: the caller supplies the read flag; the id is fresh.
addNotification(read) ==
  /\ Len(notifications) < MaxNotif
  /\ notifications' =
       <<[id |-> Len(notifications) + 1, read |-> read]>> \o notifications
  /\ unreadCount' = unreadCount + 1
  /\ UNCHANGED session

\* uiStore.ts:63-70
markAsRead(id) ==
  /\ notifications' =
       [i \in DOMAIN notifications |->
          IF notifications[i].id = id
          THEN [notifications[i] EXCEPT !.read = TRUE]
          ELSE notifications[i]]
  /\ unreadCount' = IF unreadCount - 1 > 0 THEN unreadCount - 1 ELSE 0
  /\ UNCHANGED session

\* uiStore.ts:72-77
markAllAsRead ==
  /\ notifications' =
       [i \in DOMAIN notifications |-> [notifications[i] EXCEPT !.read = TRUE]]
  /\ unreadCount' = 0
  /\ UNCHANGED session

\* The session variables as a page without a session has them.
InitUI ==
  /\ now = 1
  /\ localStorage = [access_token |-> NoToken, refresh_token |-> NoRefresh]
  /\ isAuthenticated = FALSE
  /\ minted = 0
  /\ isRefreshing = FALSE
  /\ refreshSubscribers = <<>>
  /\ req = [r \in 1..NumReq |-> NewReq]
  /\ isLoading = FALSE
  /\ notifications = <<>>
  /\ unreadCount = 0

\* The ids markAsRead is called with: those of the list and one that no
\* notification has.
NextUI ==
  \/ \E read \in BOOLEAN : addNotification(read)
  \/ \E id \in 1..(MaxNotif + 1) : markAsRead(id)
  \/ markAllAsRead

SpecUI == InitUI /\ [][NextUI]_vars

\* ---- what the claims speak of ----

\* The requests suspended in the request interceptor.
Leaders == {r \in Req : req[r].pc = "refreshing"}
Waiters == {r \in Req : req[r].pc = "waiting"}

\* In this step the renewal that request r leads completes with a token.
LeadSucceeds(r) ==
  req[r].pc = "refreshing" /\ req'[r].pc # "refreshing" /\ req'[r].sig = req[r].sig

\* In this step the renewal that request r leads completes with null.
LeadFails(r) ==
  req[r].pc = "refreshing" /\ req'[r].sig > req[r].sig

\* In this step the handling of some request ends a failed renewal.
FailureHandled == \E r \in Req : req'[r].sig > req[r].sig

\* In this step request r enters the request interceptor for the first time
\* and the stored access token does not decode.
IssuedUndecodable(r) ==
  /\ req[r].pc = "idle" /\ req'[r].pc # "idle"
  /\ localStorage.access_token.k = "bad"

\* ---- claims ----

\* C1: at most one call to the renewal endpoint is outstanding at a time.
C1_OneRenewalOutstanding == Cardinality(NetCalls) <= 1

\* C2: requests that find the token expired form one group per renewal: one
\* of them calls the renewal endpoint, once, the others call nothing, and
\* when that renewal succeeds every one of them is transmitted in that step
\* with the token it minted.
C2_SingleFlight ==
  /\ [](/\ Cardinality(Leaders) <= 1
        /\ isRefreshing <=> Leaders # {}
        /\ \A r \in Waiters : req[r].call = "none")
  /\ [][\A r \in Req : LeadSucceeds(r) =>
          /\ req[r].call = "net"
          /\ localStorage'.access_token = NextToken
          /\ \A q \in Waiters \cup {r} :
               /\ req'[q].pc = "sent"
               /\ req'[q].hdr = NextToken
               /\ req'[q].sends = req[q].sends + 1]_vars

\* C2 witness: a leader and a request that joined it, both transmitted with
\* the same minted token.
C2_Witness ==
  \E r, q \in Req :
    /\ req[r].via = "lead" /\ req[q].via = "join"
    /\ req[r].pc = "sent" /\ req[q].pc = "sent"
    /\ req[r].hdr.k = "jwt" /\ req[q].hdr = req[r].hdr
    /\ req[r].hdr = localStorage.access_token

\* C3: a 401 that arrives while a renewal call is outstanding starts no
\* further call to the renewal endpoint.
C3_GuardJoinsRenewal ==
  [][NetCalls # {} =>
       ~(\E r \in Req : req[r].pc = "sent" /\ req'[r].call = "net")]_vars

\* C4: a request is transmitted at most twice, the response interceptor
\* renews for it only after its first 401, and a second 401 leaves it
\* failed.
C4_AtMostOneReplay ==
  \A r \in Req :
    /\ req[r].sends <= 2
    /\ req[r].rej <= 2
    /\ req[r].pc = "renewing" => req[r].rej = 1
    /\ req[r].rej = 2 => req[r].pc = "failed" /\ req[r].call = "none"

\* C4 witness: a request rejected twice, replayed once.
C4_Witness ==
  \E r \in Req : req[r].rej = 2 /\ req[r].sends = 2 /\ req[r].pc = "failed"

\* C5: a step that handles a failed renewal leaves neither credential key
\* in the store.
C5_TeardownClearsStore ==
  [][FailureHandled =>
       /\ localStorage'.access_token = NoToken
       /\ localStorage'.refresh_token = NoRefresh]_vars

\* C5 witness: both interceptors have handled a failed renewal.
C5_Witness ==
  /\ \E r \in Req : req[r].sig > 0 /\ req[r].via = "lead" /\ req[r].rej = 0
  /\ \E r \in Req : req[r].sig > 0 /\ req[r].rej > 0
  /\ localStorage.access_token = NoToken
  /\ localStorage.refresh_token = NoRefresh

\* C6: the handling of one request fires the session-end signal at most
\* once.
C6_OneSignal == \A r \in Req : req[r].sig <= 1

\* C7: when the renewal a request leads fails, no request is left waiting.
C7_WaitersReleasedOnFailure ==
  [][(\E r \in Req : LeadFails(r)) => \A q \in Req : req'[q].pc # "waiting"]_vars

C9_NoUndecodableHeader == \A r \in Req : req[r].hdr.k # "bad"

\* C9 witness: a request on the wire while the stored token does not decode.
C9_Witness ==
  \E r \in Req :
    /\ req[r].pc = "sent" /\ req[r].via = "decodeErr"
    /\ localStorage.access_token = Garbage
    /\ req[r].hdr = NoToken

\* C10: a request whose own renewal resolves with null is not transmitted.
C10_NoSendAfterFailedRenewal ==
  [][\A r \in Req : LeadFails(r) =>
       req'[r].sends = req[r].sends /\ req'[r].pc # "sent"]_vars

\* In this step the renewal cycle of the request interceptor ends.
CycleEnds == isRefreshing /\ ~isRefreshing'

\* C11: a request that subscribed during the renewal led by request l is
\* released only by that renewal: when a renewal succeeds, every request it
\* releases had subscribed behind its leader.
C11_ReleasedByOwnCycle ==
  [][\A l \in Req : LeadSucceeds(l) =>
       \A q \in Waiters : req'[q].pc = "sent" => req[q].behind = l]_vars

\* C12: when a cycle with three subscribers ends, with a token or with a
\* failure, the list is empty and none of the three is still waiting.
C12_DrainedAtCycleEnd ==
  [][(CycleEnds /\ Len(refreshSubscribers) = 3) =>
       /\ refreshSubscribers' = <<>>
       /\ \A i \in 1..3 : req'[refreshSubscribers[i]].pc # "waiting"]_vars

\* C13: the subscriber list is non-empty only while isRefreshing is true.
C13_SubscribersOnlyWhileRefreshing ==
  refreshSubscribers # <<>> => isRefreshing

\* In this step request r enters the request interceptor for the first time.
FirstPass(r) == req[r].pc = "idle" /\ req'[r].pc # "idle"

\* The stored access token decodes and its expiry is before, or after, now.
StoredExpired ==
  localStorage.access_token.k = "jwt" /\ localStorage.access_token.exp < now
StoredFuture ==
  localStorage.access_token.k = "jwt" /\ localStorage.access_token.exp > now

\* In this step the renewal that the response interceptor started for r, on
\* an un-retried 401, ends with null.
GuardRenewalFails(r) ==
  req[r].pc \in {"sent", "renewing"} /\ req'[r].sig > req[r].sig

\* In this step the renewal that the response interceptor started for r
\* ends with a token.
GuardRenewalSucceeds(r) ==
  req[r].pc = "renewing" /\ req'[r].pc # "renewing" /\ req'[r].sig = req[r].sig

\* In this step r gets a response that is no 401, or a 401 with _retry set.
PassThrough(r) ==
  /\ req[r].pc = "sent" /\ req'[r].pc # "sent"
  /\ req'[r].rej = req[r].rej \/ req[r].retry

\* The step starts no renewal call and leaves the flag and the list alone.
NoRenewalActivity ==
  /\ NetCalls' = NetCalls
  /\ isRefreshing' = isRefreshing
  /\ refreshSubscribers' = refreshSubscribers

\* C14: when the renewal after an un-retried 401 fails, the step that
\* handles it rejects the caller after the one 401 it received, does not
\* transmit the request again and has cleared the session; a rejected
\* request does nothing further.
C14_GuardFailureRejects ==
  [][\A r \in Req :
       /\ GuardRenewalFails(r) =>
            /\ req'[r].pc = "failed"
            /\ req'[r].rej = 1
            /\ req'[r].sends = req[r].sends
            /\ localStorage'.access_token = NoToken
            /\ localStorage'.refresh_token = NoRefresh
            /\ ~isAuthenticated'
       /\ req[r].pc = "failed" => req'[r] = req[r]]_vars

\* C14 witness: a request rejected after one transmission, one 401 and a
\* failed renewal of the response interceptor.
C14_Witness ==
  \E r \in Req :
    /\ req[r].pc = "failed" /\ req[r].via # "lead"
    /\ req[r].sig = 1 /\ req[r].rej = 1 /\ req[r].sends = 1
    /\ localStorage.access_token = NoToken

\* C15: a request issued while no access token is stored is transmitted in
\* that step without Authorization header, with no renewal call and without
\* subscribing, whatever the flag.
C15_NoTokenSentBare ==
  [][\A r \in Req : (FirstPass(r) /\ localStorage.access_token = NoToken) =>
       /\ req'[r].pc = "sent"
       /\ req'[r].hdr = NoToken
       /\ req'[r].sends = 1
       /\ req'[r].call = "none"
       /\ NoRenewalActivity]_vars

\* C15 witness: a request sent bare while another request's renewal is in
\* flight.
C15_Witness ==
  \E r, l \in Req :
    /\ req[r].via = "anon" /\ req[r].pc = "sent" /\ req[r].hdr = NoToken
    /\ req[l].pc = "refreshing" /\ req[l].call = "net" /\ isRefreshing
    /\ localStorage.access_token = NoToken

\* C16: a request issued while the stored token decodes with its expiry
\* after now is transmitted in that step with that token; no renewal call,
\* flag, list and store unchanged.
C16_FutureTokenSentAtOnce ==
  [][\A r \in Req : (FirstPass(r) /\ StoredFuture) =>
       /\ req'[r].pc = "sent"
       /\ req'[r].hdr = localStorage.access_token
       /\ req'[r].sends = 1
       /\ req'[r].call = "none"
       /\ localStorage' = localStorage
       /\ NoRenewalActivity]_vars

\* C16 witness: a request on the wire with the stored token, which expires
\* after now.
C16_Witness ==
  \E r \in Req :
    /\ req[r].via = "valid" /\ req[r].pc = "sent" /\ req[r].rej = 0
    /\ req[r].hdr = localStorage.access_token
    /\ req[r].hdr.k = "jwt" /\ req[r].hdr.exp > now

\* C17: a response that is no 401, or a 401 for a request with _retry set,
\* settles the caller's promise and nothing else: no renewal, no teardown,
\* no replay, store and _retry unchanged.
C17_PassThrough ==
  [][\A r \in Req : PassThrough(r) =>
       /\ req'[r].pc \in {"done", "failed"}
       /\ req'[r].rej > req[r].rej => req'[r].pc = "failed"
       /\ req'[r].retry = req[r].retry
       /\ req'[r].sends = req[r].sends
       /\ req'[r].sig = req[r].sig
       /\ req'[r].hdr = req[r].hdr
       /\ req'[r].call = "none"
       /\ localStorage' = localStorage
       /\ isAuthenticated' = isAuthenticated
       /\ NoRenewalActivity]_vars

\* C17 witness: one request rejected by a 401 on its replay, another
\* resolved without any 401.
C17_Witness ==
  \E r, q \in Req :
    /\ req[r].retry /\ req[r].rej = 2 /\ req[r].pc = "failed" /\ req[r].sig = 0
    /\ req[q].pc = "done" /\ req[q].rej = 0

\* C18: when the renewal after a 401 returns a token, the request is
\* transmitted again in that step with exactly that token.
C18_ReplayCarriesRenewedToken ==
  [][\A r \in Req : GuardRenewalSucceeds(r) =>
       /\ req'[r].pc = "sent"
       /\ req'[r].hdr = NextToken
       /\ req'[r].sends = req[r].sends + 1]_vars

\* C18 witness: a replayed request on the wire with a renewed token.
C18_Witness ==
  \E r \in Req :
    /\ req[r].retry /\ req[r].pc = "sent" /\ req[r].sends = 2
    /\ req[r].hdr.k = "jwt" /\ req[r].hdr.id = minted

\* C19: a request issued while the stored token is expired is suspended,
\* not transmitted; and a suspended request is transmitted only when the
\* renewal it leads, or subscribed behind, is no longer pending.
C19_NotSentBeforeRenewalEnds ==
  [][\A r \in Req :
       /\ (FirstPass(r) /\ StoredExpired) =>
            /\ req'[r].pc \in {"refreshing", "waiting"}
            /\ req'[r].sends = req[r].sends
       /\ (req[r].pc \in {"refreshing", "waiting"}
             /\ req'[r].sends > req[r].sends) =>
            LET l == IF req[r].pc = "refreshing" THEN r ELSE req[r].behind
            IN  l \in Req /\ req'[l].pc # "refreshing"]_vars

\* C19 witness: a subscriber on the wire after the renewal of its leader.
C19_Witness ==
  \E r \in Req :
    /\ req[r].via = "join" /\ req[r].pc = "sent"
    /\ req[r].behind \in Req
    /\ req[req[r].behind].via = "lead"
    /\ req[req[r].behind].pc # "refreshing"

\* C20: a request that finds the token expired and the flag true makes no
\* renewal call: it is appended to the list, stays there without a call
\* while it waits, and leaves the waiting state only by its callback, in
\* the step where a renewal succeeds, transmitted with that token.
C20_JoinerWaitsForCallback ==
  /\ [](\A r \in Waiters :
          /\ req[r].call = "none"
          /\ \E i \in 1..Len(refreshSubscribers) : refreshSubscribers[i] = r)
  /\ [][\A r \in Req :
          /\ (FirstPass(r) /\ StoredExpired /\ isRefreshing) =>
               /\ req'[r].pc = "waiting"
               /\ req'[r].call = "none"
               /\ req'[r].sends = req[r].sends
               /\ NetCalls' = NetCalls
               /\ refreshSubscribers' = Append(refreshSubscribers, r)
          /\ (req[r].pc = "waiting" /\ req'[r].pc # "waiting") =>
               /\ \E l \in Req : LeadSucceeds(l)
               /\ req'[r].pc = "sent"
               /\ req'[r].hdr = NextToken
               /\ refreshSubscribers' = <<>>]_vars

\* C20 witness: a request that subscribed, now transmitted, the list empty.
C20_Witness ==
  \E r \in Req :
    /\ req[r].via = "join" /\ req[r].pc = "sent" /\ req[r].sends = 1
    /\ req[r].hdr.k = "jwt"
    /\ refreshSubscribers = <<>>

\* The stored access token decodes and its expiry equals now.
StoredOnBoundary ==
  localStorage.access_token.k = "jwt" /\ localStorage.access_token.exp = now

\* In this step a renewal ends with a token, for either interceptor.
RenewalSucceeds == \E r \in Req : LeadSucceeds(r) \/ GuardRenewalSucceeds(r)

\* C21: a request issued while the stored token's expiry equals now is
\* suspended behind a renewal and not sent with the stored token.
C21_BoundaryCountsAsExpired ==
  [][\A r \in Req : (FirstPass(r) /\ StoredOnBoundary) =>
       /\ req'[r].pc \in {"refreshing", "waiting"}
       /\ req'[r].sends = req[r].sends]_vars

\* C22: every request that a successful renewal releases, the one that
\* started it and each subscriber, carries the token the store holds at
\* that moment, and that token is the one just minted.
C22_StoredBeforeRelease ==
  [][\A r \in Req :
       (LeadSucceeds(r) \/ GuardRenewalSucceeds(r)) =>
         /\ localStorage'.access_token = NextToken
         /\ \A q \in Req :
              req'[q].sends > req[q].sends =>
                req'[q].hdr = localStorage'.access_token]_vars

\* C22 witness: a request released by the renewal it started, carrying the
\* stored token, the last one minted.
C22_Witness ==
  \E r \in Req :
    /\ req[r].via = "lead" /\ req[r].pc = "sent" /\ req[r].sig = 0
    /\ req[r].hdr = localStorage.access_token
    /\ req[r].hdr.k = "jwt" /\ req[r].hdr.id = minted /\ minted > 0

\* C24: a stored access token implies a stored refresh token.
C24_AccessImpliesRefresh ==
  localStorage.access_token # NoToken => localStorage.refresh_token # NoRefresh

\* C25: isRefreshing is true exactly while a request awaits refreshToken at
\* line 59, and the step in which that call ends resets it.
C25_FlagFollowsLeaderCall ==
  /\ [](isRefreshing <=>
          \E r \in Req : req[r].pc = "refreshing" /\ req[r].call \in {"net", "null"})
  /\ [][\A r \in Req :
          (req[r].pc = "refreshing" /\ req'[r].call # req[r].call) =>
            /\ ~isRefreshing'
            /\ req'[r].pc # "refreshing"]_vars

\* C25 witness: a renewal of the request interceptor has ended and the flag
\* is false.
C25_Witness ==
  /\ ~isRefreshing
  /\ \E r \in Req : req[r].via = "lead" /\ req[r].pc # "refreshing"
                      /\ req[r].call = "none"

\* C28: a renewal that ends with a token leaves the refresh token as it
\* was, and the refresh token changes only when both keys are cleared or
\* both are written.
C28_RenewalKeepsRefresh ==
  [][/\ RenewalSucceeds => localStorage'.refresh_token = localStorage.refresh_token
     /\ localStorage'.refresh_token # localStorage.refresh_token =>
          \/ /\ localStorage'.refresh_token = NoRefresh
             /\ localStorage'.access_token = NoToken
          \/ /\ localStorage'.refresh_token = minted + 1
             /\ localStorage'.access_token = NextToken
             /\ isAuthenticated']_vars

\* C28 witness: a renewed access token beside the refresh token of the
\* restored session.
C28_Witness ==
  /\ localStorage.access_token.k = "jwt" /\ localStorage.access_token.id = 2
  /\ localStorage.refresh_token = 1
  /\ \E r \in Req : req[r].pc = "sent" /\ req[r].hdr = localStorage.access_token
                      /\ (req[r].via = "lead" \/ req[r].retry)

\* In this step request r starts a refreshToken call: from the request
\* interceptor (line 59) or from the response interceptor (line 101).
StartsRenewal(r) ==
  \/ req[r].pc = "idle" /\ req'[r].pc = "refreshing"
  \/ req[r].pc = "sent" /\ ~req[r].retry /\ req'[r].retry

\* The teardown of lines 66-67 and 106-107 happens in this step while
\* request r is handled.
TornDown(r) ==
  /\ req'[r].sig = req[r].sig + 1
  /\ localStorage' = [access_token |-> NoToken, refresh_token |-> NoRefresh]
  /\ ~isAuthenticated'

\* C26: a refreshToken call started while no refresh token is stored makes
\* no call to the renewal endpoint; the response interceptor tears the
\* session down in the same step, the request interceptor holds a null
\* result and tears the session down in the step that consumes it.
C26_NoRefreshTokenMeansTeardown ==
  [][\A r \in Req :
       /\ (StartsRenewal(r) /\ localStorage.refresh_token = NoRefresh) =>
            /\ req'[r].call # "net"
            /\ NetCalls' = NetCalls
            /\ minted' = minted
            /\ \/ req'[r].pc = "refreshing" /\ req'[r].call = "null"
               \/ req'[r].pc = "failed" /\ TornDown(r)
       /\ (req[r].call = "null" /\ req'[r].call # "null") =>
            /\ TornDown(r)
            /\ ~isRefreshing'
            /\ NetCalls' = NetCalls
            /\ minted' = minted]_vars

\* C26 witness: the request interceptor found the access token expired
\* and no refresh token; its refreshToken call has returned null and no
\* call to the endpoint is outstanding.
C26_Witness ==
  /\ \E r \in Req : req[r].pc = "refreshing" /\ req[r].call = "null"
  /\ localStorage.refresh_token = NoRefresh
  /\ TokenExpired(localStorage.access_token, now)
  /\ NetCalls = {}

\* The store without credentials.
EmptyStore == [access_token |-> NoToken, refresh_token |-> NoRefresh]

\* In this step the request of a store action resolves, or is rejected.
AuthCallSucceeds(r) ==
  req[r].kind \in AuthCalls /\ req[r].pc = "sent" /\ req'[r].pc = "done"
AuthCallFails(r) ==
  req[r].kind \in AuthCalls /\ req[r].pc # "failed" /\ req'[r].pc = "failed"

\* C23: a step that changes a credential key is the success of a login,
\* registration or verification (both keys written), a successful renewal
\* (the access token written), or a logout or teardown (both removed); a
\* store action that fails without teardown, a request entering the request
\* interceptor and a response that is passed through change neither key.
C23_StoreWrittenOnlyBy ==
  [][/\ localStorage' # localStorage =>
          \/ /\ \E r \in Req : AuthCallSucceeds(r)
             /\ localStorage' = [access_token |-> NextToken,
                                 refresh_token |-> minted + 1]
          \/ /\ RenewalSucceeds
             /\ localStorage' = [localStorage EXCEPT !.access_token = NextToken]
          \/ /\ localStorage' = EmptyStore
             /\ ~isAuthenticated'
             /\ \A r \in Req : ~AuthCallSucceeds(r)
     /\ \A r \in Req :
          /\ (AuthCallFails(r) /\ req'[r].sig = req[r].sig) =>
               localStorage' = localStorage
          /\ FirstPass(r) => localStorage' = localStorage
          /\ (PassThrough(r) /\ ~AuthCallSucceeds(r)) =>
               localStorage' = localStorage]_vars

\* C23 witness: a store action succeeded, its tokens are stored, and the
\* request of another store action was rejected without teardown.
C23_Witness ==
  /\ \E r \in Req : req[r].kind \in AuthCalls /\ req[r].pc = "done"
  /\ \E q \in Req : req[q].kind \in AuthCalls /\ req[q].pc = "failed"
                      /\ req[q].sig = 0
  /\ localStorage.access_token.k = "jwt"
  /\ localStorage.access_token.id = minted
  /\ localStorage.refresh_token = minted
  /\ minted > 0

\* C27: when the request of login, issued and answered while no credentials
\* are stored, gets its 401, that step rejects the caller after the one
\* transmission, starts no call to the renewal endpoint, leaves the store
\* empty and the session unauthenticated, and resets isLoading.
C27_Login401 ==
  [][\A r \in Req :
       (/\ req[r].kind \in AuthCalls
        /\ req[r].pc = "sent" /\ req'[r].rej = req[r].rej + 1
        /\ ~req[r].retry
        /\ localStorage = EmptyStore) =>
         /\ req'[r].pc = "failed"
         /\ req'[r].sends = 1
         /\ req'[r].call = "none"
         /\ NetCalls' = NetCalls
         /\ minted' = minted
         /\ localStorage' = EmptyStore
         /\ ~isAuthenticated'
         /\ ~isLoading']_vars

\* C27 witness: a login issued on an empty store (no header attached, no
\* token minted since) was rejected after one transmission and one 401.
C27_Witness ==
  /\ \E r \in Req : /\ req[r].kind = "login" /\ req[r].via = "anon"
                    /\ req[r].pc = "failed" /\ req[r].sends = 1
                    /\ req[r].rej = 1 /\ req[r].sig = 1
                    /\ req[r].hdr = NoToken
  /\ minted = 0
  /\ localStorage = EmptyStore
  /\ ~isAuthenticated /\ ~isLoading

\* C29: an authenticated session has both tokens stored.
C29_AuthenticatedHasTokens ==
  isAuthenticated =>
    /\ localStorage.access_token # NoToken
    /\ localStorage.refresh_token # NoRefresh

\* The notifications of the list whose read flag is not true.
Unread == {i \in DOMAIN notifications : ~notifications[i].read}

\* C30: unreadCount is the number of unread notifications of the list.
C30_UnreadCountMatches == unreadCount = Cardinality(Unread)
====
